---- MODULE Spec2Model ----
(***************************************************************************)
(* Model of apps/desktop/src-tauri/src/main.rs: the bootstrap of the       *)
(* desktop shell.  main builds a tauri::Builder, registers the shell       *)
(* plugin, registers a setup closure and calls run; the closure looks up   *)
(* the webview window "main", unwraps it and, when debug_assertions is     *)
(* set, opens its developer tools.  The framework behind run is the        *)
(* environment: it may fail to initialise, it invokes the registered setup *)
(* closure, dispatches events, and returns a Result to main.               *)
(***************************************************************************)
EXTENDS Integers, Sequences, FiniteSets

VARIABLES
    pc,                \* position of the single thread of control
    debug_assertions,  \* build configuration (cfg(debug_assertions))
    windows,           \* the framework's window registry: declared labels
    builder,           \* the tauri::Builder value being chained in main
    window,            \* the closure's local `window` (an Option, unwrapped)
    devtoolsOpen,      \* windows whose developer-tools panel is open
    setupResult,       \* what the setup closure returned
    runResult,         \* what Builder::run returned to main
    session,           \* the GUI session: "none", "active", "ended"
    events,            \* events dispatched by the event loop so far
    exit,              \* how the process terminated
    setupCalls,        \* number of invocations of the setup closure
    lookups,           \* number of get_webview_window calls
    devtoolsCalls,     \* number of open_devtools calls
    runCalls,          \* number of Builder::run calls
    trace              \* the calls made so far, in order

vars == <<pc, debug_assertions, windows, builder, window, devtoolsOpen,
          setupResult, runResult, session, events, exit, setupCalls,
          lookups, devtoolsCalls, runCalls, trace>>

\* Events the event loop dispatches before the model stops counting them.
MaxEvents == 3

\* Window labels a tauri.conf.json may declare.
Labels == {"main", "settings", "splash"}

None == "None"

MainLabel == "main"

ExpectMessage == "error while running tauri application"

UnwrapMessage == "called Option::unwrap() on a None value"

NoExit == [code |-> -1, msg |-> "", cause |-> "none"]

\* Manager::get_webview_window: a read of the registry by label.
get_webview_window(registry, label) ==
    IF label \in registry THEN label ELSE None

Init ==
    /\ pc = "start"
    /\ debug_assertions \in BOOLEAN
    /\ windows \in SUBSET Labels
    /\ builder = [built |-> FALSE, plugins |-> {}, setup |-> FALSE]
    /\ window = None
    /\ devtoolsOpen = {}
    /\ setupResult = "none"
    /\ runResult = "none"
    /\ session = "none"
    /\ events = 0
    /\ exit = NoExit
    /\ setupCalls = 0
    /\ lookups = 0
    /\ devtoolsCalls = 0
    /\ runCalls = 0
    /\ trace = <<>>

\* A panic: the process terminates with exit status 101 and a message.
Panic(msg, cause) ==
    /\ pc' = "panic"
    /\ exit' = [code |-> 101, msg |-> msg, cause |-> cause]

\* line 7: tauri::Builder::default()
BuilderDefault_no_plugin ==
    /\ pc = "start"
    /\ builder' = [builder EXCEPT !.built = TRUE]
    /\ trace' = Append(trace, "default")
    /\ pc' = "setup"
    /\ UNCHANGED <<debug_assertions, windows, window, devtoolsOpen,
                   setupResult, runResult, session, events, exit,
                   setupCalls, lookups, devtoolsCalls, runCalls>>

BuilderDefault ==
    /\ pc = "start"
    /\ builder' = [builder EXCEPT !.built = TRUE]
    /\ trace' = Append(trace, "default")
    /\ pc' = "plugin"
    /\ UNCHANGED <<debug_assertions, windows, window, devtoolsOpen,
                   setupResult, runResult, session, events, exit,
                   setupCalls, lookups, devtoolsCalls, runCalls>>

\* line 8: .plugin(tauri_plugin_shell::init())
Plugin ==
    /\ pc = "plugin"
    /\ builder' = [builder EXCEPT !.plugins = @ \cup {"shell"}]
    /\ trace' = Append(trace, "plugin")
    /\ pc' = "setup"
    /\ UNCHANGED <<debug_assertions, windows, window, devtoolsOpen,
                   setupResult, runResult, session, events, exit,
                   setupCalls, lookups, devtoolsCalls, runCalls>>

\* lines 9-19: .setup(|app| { ... }) stores the closure in the builder
Setup ==
    /\ pc = "setup"
    /\ builder' = [builder EXCEPT !.setup = TRUE]
    /\ trace' = Append(trace, "setup")
    /\ pc' = "run"
    /\ UNCHANGED <<debug_assertions, windows, window, devtoolsOpen,
                   setupResult, runResult, session, events, exit,
                   setupCalls, lookups, devtoolsCalls, runCalls>>

\* line 20: .run(tauri::generate_context!()) hands control to the framework
Run_build_only ==
    /\ pc = "run"
    /\ runCalls' = runCalls + 1
    /\ runResult' = "Ok"
    /\ trace' = Append(trace, "run")
    /\ pc' = "expect"
    /\ UNCHANGED <<debug_assertions, windows, builder, window, devtoolsOpen,
                   setupResult, session, events, exit,
                   setupCalls, lookups, devtoolsCalls>>

Run ==
    /\ pc = "run"
    /\ runCalls' = runCalls + 1
    /\ trace' = Append(trace, "run")
    /\ pc' = "fw_init"
    /\ UNCHANGED <<debug_assertions, windows, builder, window, devtoolsOpen,
                   setupResult, runResult, session, events, exit,
                   setupCalls, lookups, devtoolsCalls>>

\* inside run: the framework fails to initialise and run returns Err
RunInitFails ==
    /\ pc = "fw_init"
    /\ runResult' = "Err"
    /\ pc' = "expect"
    /\ UNCHANGED <<debug_assertions, windows, builder, window, devtoolsOpen,
                   setupResult, session, events, exit, setupCalls, lookups,
                   devtoolsCalls, runCalls, trace>>

\* inside run: the framework is ready and invokes the registered closure
RunInvokesSetup ==
    /\ pc = "fw_init"
    /\ builder.setup
    /\ setupCalls' = setupCalls + 1
    /\ trace' = Append(trace, "setup_callback")
    /\ pc' = "cb_lookup"
    /\ UNCHANGED <<debug_assertions, windows, builder, window, devtoolsOpen,
                   setupResult, runResult, session, events, exit, lookups,
                   devtoolsCalls, runCalls>>

\* line 10: app.get_webview_window("main")
GetWebviewWindow_take ==
    /\ pc = "cb_lookup"
    /\ window' = get_webview_window(windows, MainLabel)
    /\ windows' = windows \ {MainLabel}
    /\ lookups' = lookups + 1
    /\ trace' = Append(trace, "get_webview_window")
    /\ pc' = "cb_unwrap"
    /\ UNCHANGED <<debug_assertions, builder, devtoolsOpen,
                   setupResult, runResult, session, events, exit,
                   setupCalls, devtoolsCalls, runCalls>>

GetWebviewWindow ==
    /\ pc = "cb_lookup"
    /\ window' = get_webview_window(windows, MainLabel)
    /\ lookups' = lookups + 1
    /\ trace' = Append(trace, "get_webview_window")
    /\ pc' = "cb_unwrap"
    /\ UNCHANGED <<debug_assertions, windows, builder, devtoolsOpen,
                   setupResult, runResult, session, events, exit,
                   setupCalls, devtoolsCalls, runCalls>>

\* line 10: .unwrap() panics on None
Unwrap_unchecked ==
    /\ pc = "cb_unwrap"
    /\ pc' = "cb_devtools"
    /\ UNCHANGED <<debug_assertions, windows, builder, window, devtoolsOpen,
                   setupResult, runResult, session, events, exit,
                   setupCalls, lookups, devtoolsCalls, runCalls, trace>>

Unwrap_lenient ==
    /\ pc = "cb_unwrap"
    /\ pc' = IF window = None THEN "cb_return" ELSE "cb_devtools"
    /\ UNCHANGED <<debug_assertions, windows, builder, window, devtoolsOpen,
                   setupResult, runResult, session, events, exit,
                   setupCalls, lookups, devtoolsCalls, runCalls, trace>>

Unwrap ==
    /\ pc = "cb_unwrap"
    /\ IF window = None
          THEN Panic(UnwrapMessage, "unwrap")
          ELSE pc' = "cb_devtools" /\ exit' = exit
    /\ UNCHANGED <<debug_assertions, windows, builder, window, devtoolsOpen,
                   setupResult, runResult, session, events,
                   setupCalls, lookups, devtoolsCalls, runCalls, trace>>

\* lines 12-16: #[cfg(debug_assertions)] { window.open_devtools(); }
OpenDevtools_always ==
    /\ pc = "cb_devtools"
    /\ devtoolsCalls' = devtoolsCalls + 1
    /\ devtoolsOpen' = devtoolsOpen \cup {window}
    /\ trace' = Append(trace, "open_devtools")
    /\ pc' = "cb_return"
    /\ UNCHANGED <<debug_assertions, windows, builder, window,
                   setupResult, runResult, session, events, exit,
                   setupCalls, lookups, runCalls>>

OpenDevtools_never ==
    /\ pc = "cb_devtools"
    /\ pc' = "cb_return"
    /\ UNCHANGED <<debug_assertions, windows, builder, window, devtoolsOpen,
                   setupResult, runResult, session, events, exit,
                   setupCalls, lookups, devtoolsCalls, runCalls, trace>>

OpenDevtools ==
    /\ pc = "cb_devtools"
    /\ IF debug_assertions
          THEN /\ devtoolsCalls' = devtoolsCalls + 1
               /\ devtoolsOpen' = devtoolsOpen \cup {window}
               /\ trace' = Append(trace, "open_devtools")
          ELSE UNCHANGED <<devtoolsCalls, devtoolsOpen, trace>>
    /\ pc' = "cb_return"
    /\ UNCHANGED <<debug_assertions, windows, builder, window,
                   setupResult, runResult, session, events, exit,
                   setupCalls, lookups, runCalls>>

\* line 18: Ok(())
SetupReturn_err ==
    /\ pc = "cb_return"
    /\ setupResult' = "Err"
    /\ trace' = Append(trace, "setup_returned")
    /\ pc' = "fw_setup_done"
    /\ UNCHANGED <<debug_assertions, windows, builder, window, devtoolsOpen,
                   runResult, session, events, exit, setupCalls, lookups,
                   devtoolsCalls, runCalls>>

SetupReturn ==
    /\ pc = "cb_return"
    /\ setupResult' = "Ok"
    /\ trace' = Append(trace, "setup_returned")
    /\ pc' = "fw_setup_done"
    /\ UNCHANGED <<debug_assertions, windows, builder, window, devtoolsOpen,
                   runResult, session, events, exit, setupCalls, lookups,
                   devtoolsCalls, runCalls>>

\* inside run: the closure returned; Ok starts the GUI session, Err is the
\* framework's own fatal error
EnterEventLoop ==
    /\ pc = "fw_setup_done"
    /\ IF setupResult = "Ok"
          THEN /\ session' = "active"
               /\ trace' = Append(trace, "event_loop")
               /\ pc' = "event_loop"
               /\ exit' = exit
          ELSE /\ Panic("Failed to setup app", "setup_err")
               /\ UNCHANGED <<session, trace>>
    /\ UNCHANGED <<debug_assertions, windows, builder, window, devtoolsOpen,
                   setupResult, runResult, events, setupCalls, lookups,
                   devtoolsCalls, runCalls>>

\* inside run: the event loop dispatches one event
EventLoopStep ==
    /\ pc = "event_loop"
    /\ events < MaxEvents
    /\ events' = events + 1
    /\ UNCHANGED <<pc, debug_assertions, windows, builder, window,
                   devtoolsOpen, setupResult, runResult, session, exit,
                   setupCalls, lookups, devtoolsCalls, runCalls, trace>>

\* inside run: the application exits, the loop ends and run returns Ok(())
EventLoopExit ==
    /\ pc = "event_loop"
    /\ session' = "ended"
    /\ runResult' = "Ok"
    /\ pc' = "expect"
    /\ UNCHANGED <<debug_assertions, windows, builder, window, devtoolsOpen,
                   setupResult, events, exit, setupCalls, lookups,
                   devtoolsCalls, runCalls, trace>>

\* inside run: the run loop fails, the session is over and run returns Err
EventLoopError ==
    /\ pc = "event_loop"
    /\ session' = "ended"
    /\ runResult' = "Err"
    /\ pc' = "expect"
    /\ UNCHANGED <<debug_assertions, windows, builder, window, devtoolsOpen,
                   setupResult, events, exit, setupCalls, lookups,
                   devtoolsCalls, runCalls, trace>>

\* line 21: .expect("error while running tauri application")
Expect_ignore ==
    /\ pc = "expect"
    /\ trace' = Append(trace, "expect")
    /\ pc' = "main_end"
    /\ UNCHANGED <<debug_assertions, windows, builder, window, devtoolsOpen,
                   setupResult, runResult, session, events, exit,
                   setupCalls, lookups, devtoolsCalls, runCalls>>

Expect ==
    /\ pc = "expect"
    /\ trace' = Append(trace, "expect")
    /\ IF runResult = "Err"
          THEN Panic(ExpectMessage, "expect")
          ELSE pc' = "main_end" /\ exit' = exit
    /\ UNCHANGED <<debug_assertions, windows, builder, window, devtoolsOpen,
                   setupResult, runResult, session, events,
                   setupCalls, lookups, devtoolsCalls, runCalls>>

\* line 22: main returns, the process exits with status 0
MainReturn ==
    /\ pc = "main_end"
    /\ pc' = "exit_ok"
    /\ exit' = [code |-> 0, msg |-> "", cause |-> "return"]
    /\ UNCHANGED <<debug_assertions, windows, builder, window, devtoolsOpen,
                   setupResult, runResult, session, events,
                   setupCalls, lookups, devtoolsCalls, runCalls, trace>>

\* The steps of startup: everything but the event loop's own progress.
Startup ==
    \/ BuilderDefault \/ Plugin \/ Setup \/ Run
    \/ RunInitFails \/ RunInvokesSetup
    \/ GetWebviewWindow \/ Unwrap \/ OpenDevtools \/ SetupReturn
    \/ EnterEventLoop \/ Expect \/ MainReturn

Next ==
    \/ BuilderDefault
    \/ Plugin
    \/ Setup
    \/ Run
    \/ RunInitFails
    \/ RunInvokesSetup
    \/ GetWebviewWindow
    \/ Unwrap
    \/ OpenDevtools
    \/ SetupReturn
    \/ EnterEventLoop
    \/ EventLoopStep
    \/ EventLoopExit
    \/ EventLoopError
    \/ Expect
    \/ MainReturn

Spec == Init /\ [][Next]_vars

\* Startup code runs to completion: a single thread with no blocking call
\* before the event loop.
FairSpec == Spec /\ WF_vars(Startup)

TypeOK ==
    /\ pc \in {"start", "plugin", "setup", "run", "fw_init", "cb_lookup",
               "cb_unwrap", "cb_devtools", "cb_return", "fw_setup_done",
               "event_loop", "expect", "main_end", "exit_ok", "panic"}
    /\ debug_assertions \in BOOLEAN
    /\ windows \subseteq Labels
    /\ window \in Labels \cup {None}
    /\ devtoolsOpen \subseteq Labels
    /\ setupResult \in {"none", "Ok", "Err"}
    /\ runResult \in {"none", "Ok", "Err"}
    /\ session \in {"none", "active", "ended"}
    /\ events \in 0..MaxEvents

----
\* Helpers for the properties.

HasMain == MainLabel \in windows

IsPrefix(s, t) ==
    /\ Len(s) <= Len(t)
    /\ \A i \in 1..Len(s) : s[i] = t[i]

Count(s, x) == Cardinality({i \in 1..Len(s) : s[i] = x})

\* The calls of a start that reaches the event loop, in program order.
StartupOrder ==
    <<"default", "plugin", "setup", "run", "setup_callback",
      "get_webview_window">>
    \o (IF debug_assertions THEN <<"open_devtools">> ELSE <<>>)
    \o <<"setup_returned", "event_loop">>

\* The trace without the final expect of line 21.
BeforeExpect ==
    IF Len(trace) > 0 /\ trace[Len(trace)] = "expect"
       THEN SubSeq(trace, 1, Len(trace) - 1)
       ELSE trace

\* C1: when no window "main" is declared, the lookup in the setup callback
\* yields None, the GUI session is never running, the process never exits
\* with success, and the start ends in the panic terminal state (non-zero
\* exit status).
C1_MissingMainIsFatal ==
    /\ [](~HasMain =>
            /\ (lookups > 0 => window = None)
            /\ pc \notin {"cb_devtools", "cb_return", "fw_setup_done",
                          "event_loop", "main_end", "exit_ok"}
            /\ session = "none"
            /\ exit.code # 0)
    /\ (~HasMain ~> (pc = "panic" /\ exit.code = 101))

C1_Witness ==
    /\ ~HasMain
    /\ lookups = 1
    /\ pc = "panic"
    /\ exit.cause = "unwrap"

C3_ReleaseNeverOpensDevtools ==
    ~debug_assertions =>
        /\ devtoolsCalls = 0
        /\ devtoolsOpen = {}
        /\ Count(trace, "open_devtools") = 0

C3_Witness ==
    /\ ~debug_assertions
    /\ window = MainLabel
    /\ session = "active"
    /\ events > 0

\* C4: while the GUI session is active main is inside the run call; once
\* run has returned or the process has terminated, the session has ended or
\* a startup error (run returned Err, or the unwrap panicked) has occurred.
C4_RunBlocksForSession ==
    /\ (session = "active" => pc = "event_loop")
    /\ (pc \in {"expect", "main_end", "exit_ok", "panic"} =>
          \/ session = "ended"
          \/ runResult = "Err"
          \/ exit.cause = "unwrap")

C4_Witness ==
    /\ pc = "exit_ok"
    /\ session = "ended"
    /\ runResult = "Ok"

\* C5: run is called at most once; when it returned Err, main is at the
\* expect of line 21 or the process has panicked there with the message
\* "error while running tauri application", and expect is the last call
\* made: main never continues to its end after the failure.
C5_RunFailureIsFatal ==
    /\ runCalls <= 1
    /\ Count(trace, "run") = runCalls
    /\ (runResult = "Err" =>
          \/ pc = "expect"
          \/ /\ pc = "panic"
             /\ exit = [code |-> 101, msg |-> ExpectMessage,
                        cause |-> "expect"]
             /\ trace[Len(trace)] = "expect")

C5_Witness ==
    /\ pc = "panic"
    /\ exit.msg = ExpectMessage
    /\ runResult = "Err"
    /\ session = "ended"

\* C6: the calls of a start are a prefix of the fixed order default,
\* plugin, setup, run, setup callback, lookup, (devtools,) Ok(()), event
\* loop: none is repeated or reordered; run is reached with the shell
\* plugin and the closure registered; the callback runs at most once and
\* the event loop is entered only after it ran once and returned Ok.
C6_LinearStartupOrder ==
    /\ IsPrefix(BeforeExpect, StartupOrder)
    /\ setupCalls <= 1
    /\ (runCalls > 0 =>
          builder = [built |-> TRUE, plugins |-> {"shell"}, setup |-> TRUE])
    /\ (session # "none" => setupCalls = 1 /\ setupResult = "Ok")

C6_Witness ==
    /\ pc = "event_loop"
    /\ trace = StartupOrder
    /\ events = 0

\* C7: a fatal error comes from the unwrap of the failed lookup or from the
\* expect on a failed run, and from nothing else; the setup callback never
\* returns Err, and returns Ok once the lookup has succeeded and the
\* callback is finished.
C7_TwoFailurePoints ==
    /\ (pc = "panic" =>
          \/ /\ exit.cause = "unwrap"
             /\ window = None
             /\ lookups = 1
             /\ runResult = "none"
          \/ /\ exit.cause = "expect"
             /\ runResult = "Err")
    /\ (exit.code \notin {-1, 0} => pc = "panic")
    /\ setupResult # "Err"
    /\ (window # None /\ pc \notin {"cb_unwrap", "cb_devtools", "cb_return"}
          => setupResult = "Ok")

C7_Witness ==
    /\ pc = "panic"
    /\ exit.cause = "expect"
    /\ setupResult = "Ok"
    /\ window = MainLabel

\* C8: no step changes the window registry; the registry is read only by
\* the step at line 10, with the key "main", never a second time, and that
\* step is taken in every start in which the setup callback runs.
C8_RegistryReadOnceUnchanged ==
    [][ /\ windows' = windows
        /\ lookups' <= 1
        /\ (lookups' # lookups <=> pc = "cb_lookup")
        /\ (lookups' # lookups =>
              /\ lookups' = lookups + 1
              /\ window' = (IF MainLabel \in windows THEN MainLabel ELSE None))
        /\ (setupCalls' = 1 /\ pc' # "cb_lookup" => lookups' = 1)
        /\ Count(trace', "get_webview_window") = lookups' ]_vars

C8_Witness ==
    /\ lookups = 1
    /\ pc = "exit_ok"
    /\ Cardinality(windows) > 1

\* C9: after a failed lookup nothing of the callback past the unwrap runs:
\* open_devtools is not called, the callback does not return, the GUI
\* session is never entered, and the only step left is the unwrap panic.
C9_FailedLookupPreempts ==
    (lookups > 0 /\ window = None) =>
        /\ pc \in {"cb_unwrap", "panic"}
        /\ (pc = "panic" => exit.cause = "unwrap")
        /\ devtoolsCalls = 0
        /\ devtoolsOpen = {}
        /\ setupResult = "none"
        /\ session = "none"
        /\ runResult = "none"

C9_Witness ==
    /\ debug_assertions
    /\ lookups = 1
    /\ window = None
    /\ pc = "panic"
    /\ devtoolsCalls = 0
====
